---- MODULE Spec2Model ----
(***************************************************************************)
(* A model of preload.js: the column-to-row reshaper transformToRows and   *)
(* the academic-year calculators academicYear and currentAcademicYear.     *)
(*                                                                         *)
(* JavaScript strings are sequences of one-character strings; JavaScript   *)
(* values are records tagged with their typeof-level kind.                 *)
(***************************************************************************)
EXTENDS Integers, Sequences, FiniteSets

VARIABLES
  data,      \* the value handed to transformToRows (retoolQueryData)
  data0,     \* history: the value of data at construction
  calls,     \* the outcomes of the transformToRows calls made so far
  nextId,    \* the identity the next allocated object gets
  arg,       \* the value handed to academicYear (input)
  result,    \* the outcome of the last academicYear call
  console,   \* the diagnostics written with console.error
  now,       \* the system clock: the current UTC calendar date
  ticks,     \* how many days the clock has advanced
  current    \* the outcome of the last currentAcademicYear call

vars == <<data, data0, calls, nextId, arg, result, console, now, ticks, current>>

rowsVars == <<data, data0, calls, nextId>>
yearVars == <<arg, result, console>>
clockVars == <<now, ticks, current>>

(***************************************************************************)
(* Bounds                                                                  *)
(***************************************************************************)
MaxCells == 4      \* total number of cells in a columnar input
MaxCalls == 2      \* transformToRows calls per behaviour
MaxStrLen == 4     \* length of a string handed to academicYear
MaxTicks == 31     \* days the clock advances per behaviour

(***************************************************************************)
(* JavaScript values of the reshaper                                       *)
(***************************************************************************)
\* cell values: undefined (a hole), null, the falsy scalar 0 and a truthy
\* scalar
Undefined == "undefined"
Null == "null"
Values == {Undefined, Null, "0", "x"}

\* property names; "1" is an array index (enumerated first), "__proto__" is
\* the name Object.prototype answers with an accessor
Keys == {"a", "1", "__proto__"}
ArrayIndexKeys == {"1"}
ArrayIndexOf(k) == IF k = "1" THEN 1 ELSE 0

RECURSIVE SeqSum(_)
SeqSum(s) == IF s = <<>> THEN 0 ELSE Head(s) + SeqSum(Tail(s))

Range(s) == {s[i] : i \in DOMAIN s}

\* the sequences over S of length exactly n
SeqsOfLen(S, n) == [1..n -> S]

\* a property of an object literal: its name and the value bound to it, an
\* array of cells or (malformed) null
Column(k, kind, items) == [key |-> k, kind |-> kind, items |-> items]

NonObjects ==
  [t : {"undefined", "null"}, truthy : {FALSE}, props : {<<>>}]
    \cup [t : {"number", "string", "boolean"}, truthy : BOOLEAN, props : {<<>>}]

\* key lists in insertion order, without repetition
KeyOrders ==
  {ks \in UNION {SeqsOfLen(Keys, n) : n \in 0..Cardinality(Keys)} :
     \A i, j \in DOMAIN ks : i # j => ks[i] # ks[j]}

\* column lengths whose total stays within MaxCells; -1 stands for a column
\* that is null instead of an array
Total(ls) == SeqSum([i \in DOMAIN ls |-> IF ls[i] < 0 THEN 0 ELSE ls[i]])

LengthsFor(n) == {ls \in [1..n -> -1..MaxCells] : Total(ls) <= MaxCells}

Offset(ls, i) == Total(SubSeq(ls, 1, i - 1))

\* the object literal with the keys ks inserted in that order, column i
\* holding ls[i] cells taken in order from cells
MakeMapping(ks, ls, cells) ==
  [t |-> "object", truthy |-> TRUE,
   props |-> [i \in 1..Len(ks) |->
                IF ls[i] < 0 THEN Column(ks[i], "null", <<>>)
                ELSE Column(ks[i], "array",
                            SubSeq(cells, Offset(ls, i) + 1, Offset(ls, i) + ls[i]))]]

(***************************************************************************)
(* transformToRows                                                         *)
(***************************************************************************)
\* the typeof test alone
TypeofTestOnly(v) == v.t \notin {"object", "null"}

\* !retoolQueryData || typeof retoolQueryData !== 'object'
\* (typeof null is 'object', so the falsy test is what rejects null)
IsNotObject(v) == (~v.truthy) \/ (v.t \notin {"object", "null"})

RECURSIVE InsertSorted(_, _)
InsertSorted(k, s) ==
  IF s = <<>> THEN <<k>>
  ELSE IF ArrayIndexOf(k) <= ArrayIndexOf(Head(s)) THEN <<k>> \o s
  ELSE <<Head(s)>> \o InsertSorted(k, Tail(s))

RECURSIVE SortIndexKeys(_)
SortIndexKeys(s) ==
  IF s = <<>> THEN <<>> ELSE InsertSorted(Head(s), SortIndexKeys(Tail(s)))

\* Object.keys: a TypeError on null and undefined; the own property names of
\* an object, array indices first in ascending order, then the other names in
\* insertion order; nothing for a primitive
ObjectKeys(v) ==
  IF v.t \in {"null", "undefined"} THEN [raised |-> TRUE, keys |-> <<>>]
  ELSE LET names == [i \in DOMAIN v.props |-> v.props[i].key]
           isIdx(k) == k \in ArrayIndexKeys
           notIdx(k) == k \notin ArrayIndexKeys
       IN [raised |-> FALSE,
           keys |-> SortIndexKeys(SelectSeq(names, isIdx)) \o SelectSeq(names, notIdx)]

HasOwn(v, k) == \E i \in DOMAIN v.props : v.props[i].key = k

\* retoolQueryData[key]: the own property, else undefined (none of the names
\* of the model is inherited by a value read here)
NoColumn == Column("", "undefined", <<>>)
GetProp(v, k) ==
  IF HasOwn(v, k) THEN v.props[CHOOSE i \in DOMAIN v.props : v.props[i].key = k]
  ELSE NoColumn

\* retoolQueryData[keys[0]]?.length || 0; keys[0] of an empty list is
\* undefined, which names the property "undefined"
FirstKey(keys) == IF keys = <<>> THEN "undefined" ELSE keys[1]
RowCount(v, keys) ==
  LET col == GetProp(v, FirstKey(keys))
  IN IF col.kind = "array" THEN Len(col.items) ELSE 0

\* retoolQueryData[key]?.[i] ?? null, i counted from 1
Nullish(x) == x \in {Undefined, Null}
CellAt(v, k, i) ==
  LET col == GetProp(v, k)
      read == IF col.kind = "array" /\ i <= Len(col.items) THEN col.items[i]
              ELSE Undefined
  IN IF Nullish(read) THEN Null ELSE read

\* const row = {}: a fresh object that inherits from Object.prototype
EmptyObject(id) == [id |-> id, own |-> <<>>, proto |-> "Object.prototype"]

\* row[key] = value on an ordinary object. "__proto__" is found on
\* Object.prototype as an accessor while the object inherits from it: its
\* setter replaces the prototype when handed null (or an object) and ignores
\* every other value, and creates no own property
PutProp(obj, k, value) ==
  IF k = "__proto__" /\ obj.proto = "Object.prototype"
  THEN IF value = Null THEN [obj EXCEPT !.proto = "null"] ELSE obj
  ELSE [obj EXCEPT !.own = Append(@, [key |-> k, val |-> value])]

RECURSIVE FillRow(_, _, _, _)
FillRow(obj, v, keys, i) ==
  IF keys = <<>> THEN obj
  ELSE FillRow(PutProp(obj, Head(keys), CellAt(v, Head(keys), i)), v, Tail(keys), i)

\* a row object created once, outside the per-row callback
HoistedRowId(id, i) == id

\* the identity of the object allocated for row i of a call that starts
\* allocating at id: const row = {} runs once per row
RowId(id, i) == id + i - 1

\* the function: an outcome is the returned array of rows, or an exception
transformToRows(v, id) ==
  IF IsNotObject(v) THEN [raised |-> FALSE, rows |-> <<>>]
  ELSE LET ks == ObjectKeys(v)
       IN IF ks.raised THEN [raised |-> TRUE, rows |-> <<>>]
          ELSE [raised |-> FALSE,
                rows |-> [i \in 1..RowCount(v, ks.keys) |->
                            FillRow(EmptyObject(RowId(id, i)), v, ks.keys, i)]]

(***************************************************************************)
(* The reshaper's state machine: one input, called repeatedly              *)
(***************************************************************************)
NoArg == [t |-> "undefined", n |-> 0, s |-> <<>>]
Outcome(kind) ==
  [kind |-> kind, start |-> <<>>, end |-> <<>>, rangeFull |-> <<>>,
   rangeShort |-> <<>>, rangeCompact |-> <<>>, rangeMixed |-> <<>>, label |-> <<>>]
NoResult == Outcome("none")
Epoch == [y |-> 1970, m |-> 1, d |-> 1]
NoCurrent == [called |-> FALSE, at |-> Epoch, year |-> 0]

RowsIdle ==
  /\ arg = NoArg /\ result = NoResult /\ console = <<>>
  /\ now = Epoch /\ ticks = 0 /\ current = NoCurrent

InitRows ==
  /\ \/ data \in NonObjects
     \/ \E ks \in KeyOrders : \E ls \in LengthsFor(Len(ks)) :
          \E cells \in SeqsOfLen(Values, Total(ls)) :
            data = MakeMapping(ks, ls, cells)
  /\ data0 = data
  /\ calls = <<>>
  /\ nextId = 1
  /\ RowsIdle

\* a caller runs transformToRows(data) to completion (a synchronous call)
CallTransformToRows ==
  /\ Len(calls) < MaxCalls
  /\ LET out == transformToRows(data, nextId)
     IN /\ calls' = Append(calls, out)
        /\ nextId' = nextId + Len(out.rows)
  /\ UNCHANGED <<data, data0, yearVars, clockVars>>

NextRows == CallTransformToRows

SpecRows == InitRows /\ [][NextRows]_vars

(***************************************************************************)
(* Strings and numbers                                                     *)
(***************************************************************************)
Digits == <<"0", "1", "2", "3", "4", "5", "6", "7", "8", "9">>
IsDigit(c) == c \in Range(Digits)
DigitValue(c) == (CHOOSE i \in DOMAIN Digits : Digits[i] = c) - 1

RECURSIVE NatToString(_)
NatToString(n) ==
  IF n < 10 THEN <<Digits[n + 1]>>
  ELSE NatToString(n \div 10) \o <<Digits[(n % 10) + 1]>>

\* Number.prototype.toString of an integer
NumberToString(n) == IF n < 0 THEN <<"-">> \o NatToString(-n) ELSE NatToString(n)

RECURSIVE PadStart(_, _)
PadStart(s, width) == IF Len(s) >= width THEN s ELSE PadStart(<<"0">> \o s, width)

\* String.prototype.slice(-2): the last two characters, or all of a shorter
\* string
SliceLast2(s) == SubSeq(s, (IF Len(s) > 2 THEN Len(s) - 2 ELSE 0) + 1, Len(s))

\* split('T')[0]: the part before the first "T"
RECURSIVE BeforeT(_)
BeforeT(s) ==
  IF s = <<>> \/ Head(s) = "T" THEN <<>> ELSE <<Head(s)>> \o BeforeT(Tail(s))

\* a number rendered with digit grouping, as toLocaleString does: "2,025"
RECURSIVE GroupedNat(_)
GroupedNat(n) ==
  IF n < 1000 THEN NatToString(n)
  ELSE GroupedNat(n \div 1000) \o <<",">> \o PadStart(NatToString(n % 1000), 3)
GroupedToString(v) ==
  IF v.t = "number"
  THEN (IF v.n < 0 THEN <<"-">> \o GroupedNat(-v.n) ELSE GroupedNat(v.n))
  ELSE IF v.t = "string" THEN v.s
  ELSE IF v.t = "null" THEN <<"n", "u", "l", "l">>
  ELSE <<"u", "n", "d", "e", "f", "i", "n", "e", "d">>

\* ToString, which parseInt applies to its first argument
ToString(v) ==
  IF v.t = "number" THEN NumberToString(v.n)
  ELSE IF v.t = "string" THEN v.s
  ELSE IF v.t = "null" THEN <<"n", "u", "l", "l">>
  ELSE <<"u", "n", "d", "e", "f", "i", "n", "e", "d">>

RECURSIVE SkipWhiteSpace(_)
SkipWhiteSpace(s) ==
  IF s # <<>> /\ Head(s) = " " THEN SkipWhiteSpace(Tail(s)) ELSE s

RECURSIVE DigitPrefix(_)
DigitPrefix(s) ==
  IF s # <<>> /\ IsDigit(Head(s)) THEN <<Head(s)>> \o DigitPrefix(Tail(s)) ELSE <<>>

RECURSIVE DigitsValue(_, _)
DigitsValue(s, acc) ==
  IF s = <<>> THEN acc ELSE DigitsValue(Tail(s), 10 * acc + DigitValue(Head(s)))

\* parseInt(string, 10): leading white space skipped, an optional sign, the
\* longest prefix of decimal digits; NaN when there is no such digit
parseInt(str) ==
  LET t == SkipWhiteSpace(str)
      signed == t # <<>> /\ Head(t) \in {"-", "+"}
      body == DigitPrefix(IF signed THEN Tail(t) ELSE t)
      sign == IF signed /\ Head(t) = "-" THEN -1 ELSE 1
  IN IF body = <<>> THEN [nan |-> TRUE, n |-> 0]
     ELSE [nan |-> FALSE, n |-> sign * DigitsValue(body, 0)]

(***************************************************************************)
(* Dates: time values are whole days since 1970-01-01 (every time value    *)
(* here is a UTC midnight)                                                 *)
(***************************************************************************)
\* a time value is finite within 8.64e15 ms of the epoch, 100,000,000 days
MaxDay == 100000000

DayFromYear(y) ==
  365 * (y - 1970) + ((y - 1969) \div 4) - ((y - 1901) \div 100) + ((y - 1601) \div 400)

InLeapYear(y) == (y % 4 = 0) /\ ((y % 100 # 0) \/ (y % 400 = 0))

MonthLengths(leap) ==
  <<31, IF leap THEN 29 ELSE 28, 31, 30, 31, 30, 31, 31, 30, 31, 30, 31>>

\* the days of the year before month (0 = January)
DaysBeforeMonth(month, leap) == SeqSum(SubSeq(MonthLengths(leap), 1, month))

\* MakeDay(year, month, date) for a month in 0..11
MakeDay(year, month, date) ==
  DayFromYear(year) + DaysBeforeMonth(month, InLeapYear(year)) + date - 1

\* Date.UTC(year, month, date): a year in 0..99 means 1900 + year; the
\* result is NaN outside the range of time values
DateUTC(year, month, date) ==
  LET yr == IF 0 <= year /\ year <= 99 THEN 1900 + year ELSE year
      day == MakeDay(yr, month, date)
  IN IF day > MaxDay \/ day < -MaxDay THEN [nan |-> TRUE, day |-> 0]
     ELSE [nan |-> FALSE, day |-> day]

\* the calendar date of a time value (YearFromTime, MonthFromTime,
\* DateFromTime), m in 1..12
CivilFromDay(day) ==
  LET z == day + 719468
      era == z \div 146097
      doe == z - era * 146097
      yoe == (doe - (doe \div 1460) + (doe \div 36524) - (doe \div 146096)) \div 365
      doy == doe - (365 * yoe + (yoe \div 4) - (yoe \div 100))
      mp == (5 * doy + 2) \div 153
      d == doy - ((153 * mp + 2) \div 5) + 1
      m == IF mp < 10 THEN mp + 3 ELSE mp - 9
  IN [y |-> yoe + era * 400 + (IF m <= 2 THEN 1 ELSE 0), m |-> m, d |-> d]

\* Date.prototype.toISOString of a finite time value at midnight: a year in
\* 0..9999 has four digits, any other a sign and six digits
toISOString(day) ==
  LET c == CivilFromDay(day)
      yyyy == IF 0 <= c.y /\ c.y <= 9999 THEN PadStart(NatToString(c.y), 4)
              ELSE <<IF c.y < 0 THEN "-" ELSE "+">>
                     \o PadStart(NatToString(IF c.y < 0 THEN -c.y ELSE c.y), 6)
  IN yyyy \o <<"-">> \o PadStart(NatToString(c.m), 2) \o <<"-">>
       \o PadStart(NatToString(c.d), 2)
       \o <<"T", "0", "0", ":", "0", "0", ":", "0", "0", ".", "0", "0", "0", "Z">>

(***************************************************************************)
(* academicYear                                                            *)
(***************************************************************************)
EnDash == "ndash"   \* U+2013, one character

\* the returned object, null with its diagnostic, or the RangeError that
\* toISOString throws on an invalid date
academicYear(input) ==
  LET year == parseInt(ToString(input))
  IN IF year.nan
     THEN [ret |-> Outcome("null"), log |-> <<"Invalid academic year input:">>]
     ELSE
       LET startDate == DateUTC(year.n, 8, 1)
           endDate == DateUTC(year.n + 1, 7, 31)
       IN IF startDate.nan \/ endDate.nan
          THEN [ret |-> Outcome("throw"), log |-> <<>>]
          ELSE
            LET fullStart == NumberToString(year.n)
                fullEnd == NumberToString(year.n + 1)
                shortStart == SliceLast2(fullStart)
                shortEnd == SliceLast2(fullEnd)
            IN [ret |->
                  [kind |-> "value",
                   start |-> BeforeT(toISOString(startDate.day)),
                   end |-> BeforeT(toISOString(endDate.day)),
                   rangeFull |-> fullStart \o <<"-">> \o fullEnd,
                   rangeShort |-> shortStart \o <<"-">> \o shortEnd,
                   rangeCompact |-> shortStart \o shortEnd,
                   rangeMixed |-> fullStart \o <<"-">> \o shortEnd,
                   label |-> fullStart \o <<EnDash>> \o fullEnd],
                log |-> <<>>]

Number(n) == [t |-> "number", n |-> n, s |-> <<>>]
String(s) == [t |-> "string", n |-> 0, s |-> s]

\* the inputs: integers around every change of behaviour, null, undefined,
\* and the strings over a small alphabet
YearNumbers ==
  {-271822, -271821, -1000, -1, 0, 1, 50, 98, 99, 100, 999, 1000, 1999, 2024,
   2025, 2099, 9999, 10000, 99999, 275759, 275760, 275761}
Alphabet == {"0", "2", "9", "-", " ", "a"}
YearInputs ==
  {Number(n) : n \in YearNumbers}
    \cup {NoArg, [t |-> "null", n |-> 0, s |-> <<>>]}
    \cup {String(s) : s \in UNION {SeqsOfLen(Alphabet, n) : n \in 0..MaxStrLen}}

YearIdle ==
  /\ data = [t |-> "undefined", truthy |-> FALSE, props |-> <<>>]
  /\ data0 = data /\ calls = <<>> /\ nextId = 1

InitYear ==
  /\ arg \in YearInputs
  /\ result = NoResult
  /\ console = <<>>
  /\ now = Epoch /\ ticks = 0 /\ current = NoCurrent
  /\ YearIdle

\* a caller runs academicYear(arg) to completion
CallAcademicYear ==
  /\ result = NoResult
  /\ LET out == academicYear(arg)
     IN /\ result' = out.ret
        /\ console' = console \o out.log
  /\ UNCHANGED <<arg, rowsVars, clockVars>>

NextYear == CallAcademicYear

SpecYear == InitYear /\ [][NextYear]_vars

(***************************************************************************)
(* currentAcademicYear and the system clock                                *)
(***************************************************************************)
\* getUTCMonth() < 9
BeforeOctober(date) ==
  LET t == CivilFromDay(MakeDay(date.y, date.m - 1, date.d))
  IN IF t.m - 1 < 9 THEN t.y - 1 ELSE t.y

\* new Date() reads the clock into a time value; getUTCFullYear and
\* getUTCMonth (0 = January) decode it
currentAcademicYear(date) ==
  LET t == CivilFromDay(MakeDay(date.y, date.m - 1, date.d))
      year == t.y
      month == t.m - 1
  IN IF month < 8 THEN year - 1 ELSE year

ClockYears == {1000, 1950, 2024, 2025, 9999}
ClockStarts == [y : ClockYears, m : 1..12, d : {1}]

DaysInMonth(y, m) == MonthLengths(InLeapYear(y))[m]

NextDate(date) ==
  IF date.d < DaysInMonth(date.y, date.m) THEN [date EXCEPT !.d = @ + 1]
  ELSE IF date.m < 12 THEN [y |-> date.y, m |-> date.m + 1, d |-> 1]
  ELSE [y |-> date.y + 1, m |-> 1, d |-> 1]

InitClock ==
  /\ now \in ClockStarts
  /\ ticks = 0
  /\ current = NoCurrent
  /\ arg = NoArg /\ result = NoResult /\ console = <<>>
  /\ YearIdle

\* a UTC day passes
Tick ==
  /\ ticks < MaxTicks
  /\ now' = NextDate(now)
  /\ ticks' = ticks + 1
  /\ UNCHANGED <<current, yearVars, rowsVars>>

\* a caller runs currentAcademicYear() to completion
CallCurrentAcademicYear ==
  /\ current' = [called |-> TRUE, at |-> now, year |-> currentAcademicYear(now)]
  /\ result' = NoResult
  /\ arg' = NoArg
  /\ UNCHANGED <<now, ticks, console, rowsVars>>

\* a caller runs academicYear on the year currentAcademicYear returned
CallAcademicYearOfCurrent ==
  /\ current.called
  /\ result = NoResult
  /\ arg' = Number(current.year)
  /\ LET out == academicYear(Number(current.year))
     IN /\ result' = out.ret
        /\ console' = console \o out.log
  /\ UNCHANGED <<now, ticks, current, rowsVars>>

NextClock == Tick \/ CallCurrentAcademicYear \/ CallAcademicYearOfCurrent

SpecClock == InitClock /\ [][NextClock]_vars

(***************************************************************************)
(* Properties of transformToRows                                           *)
(***************************************************************************)
Called == Len(calls) > 0

\* a ColumnarData value: an object whose every property is an array
IsColumnar(v) ==
  v.t = "object" /\ \A i \in DOMAIN v.props : v.props[i].kind = "array"

NumFields(v) == Len(v.props)
InputKeys(v) == {v.props[i].key : i \in DOMAIN v.props}
ColumnOf(v, k) == (CHOOSE c \in Range(v.props) : c.key = k).items

EqualLengths(v) ==
  \A i, j \in DOMAIN v.props : Len(v.props[i].items) = Len(v.props[j].items)

RowKeys(row) == {row.own[i].key : i \in DOMAIN row.own}
RowValue(row, k) == (CHOOSE p \in Range(row.own) : p.key = k).val

\* what row i has to hold for key k: the cell, null for an absent one
ExpectedCell(v, k, i) ==
  IF i > Len(ColumnOf(v, k)) THEN Null
  ELSE IF ColumnOf(v, k)[i] \in {Undefined, Null} THEN Null
  ELSE ColumnOf(v, k)[i]

RowsMatch(v, out, count) ==
  /\ ~out.raised
  /\ Len(out.rows) = count
  /\ \A i \in DOMAIN out.rows :
       /\ RowKeys(out.rows[i]) = InputKeys(v)
       /\ Len(out.rows[i].own) = NumFields(v)
       /\ \A k \in InputKeys(v) : RowValue(out.rows[i], k) = ExpectedCell(v, k, i)

\* C1: for a ColumnarData input with N fields of equal length L, the call
\* returns exactly L rows in index order, row i holding exactly the N input
\* keys, each bound to cell i of its column (0 kept as it is, absent and null
\* cells null)
C1_EqualLengthRows ==
  (IsColumnar(data) /\ NumFields(data) > 0 /\ EqualLengths(data)) =>
    \A c \in DOMAIN calls :
      RowsMatch(data, calls[c], Len(data.props[1].items))

\* the same statement for inputs none of whose fields is named "__proto__"
C1_EqualLengthRowsPlainKeys ==
  (IsColumnar(data) /\ NumFields(data) > 0 /\ EqualLengths(data)
     /\ "__proto__" \notin InputKeys(data)) =>
    \A c \in DOMAIN calls :
      RowsMatch(data, calls[c], Len(data.props[1].items))

\* C2: for a ColumnarData input whose columns differ in length, the call
\* returns as many rows as the column of the first enumerated key is long,
\* every row holds every input key, a key whose column is too short is bound
\* to null, and nothing is raised
C2_MismatchedLengthRows ==
  (IsColumnar(data) /\ ~EqualLengths(data)) =>
    \A c \in DOMAIN calls :
      RowsMatch(data, calls[c], Len(ColumnOf(data, ObjectKeys(data).keys[1])))

C2_MismatchedLengthRowsPlainKeys ==
  (IsColumnar(data) /\ ~EqualLengths(data) /\ "__proto__" \notin InputKeys(data)) =>
    \A c \in DOMAIN calls :
      RowsMatch(data, calls[c], Len(ColumnOf(data, ObjectKeys(data).keys[1])))

RowContents(out) ==
  [raised |-> out.raised,
   rows |-> [i \in DOMAIN out.rows |-> [own |-> out.rows[i].own, proto |-> out.rows[i].proto]]]

\* every row object of every call, as <<call, row>> positions
RowPositions == {<<c, i>> : c \in DOMAIN calls, i \in 1..MaxCells} 

AllRows == {p \in RowPositions : p[2] \in DOMAIN calls[p[1]].rows}

AcademicYearCalled == result # NoResult

\* the year the input parses to
Parsed == parseInt(ToString(arg))

\* a calendar date written YYYY-MM-DD
DateString(y, m, d) ==
  PadStart(NumberToString(y), 4) \o <<"-">> \o PadStart(NatToString(m), 2)
    \o <<"-">> \o PadStart(NatToString(d), 2)

\* C4: for every input that parses to an integer year, start is September 1
\* of that year and end is August 31 of the next, each written YYYY-MM-DD
C4_StartAndEnd ==
  (AcademicYearCalled /\ ~Parsed.nan) =>
    /\ result.kind = "value"
    /\ result.start = DateString(Parsed.n, 9, 1)
    /\ result.end = DateString(Parsed.n + 1, 8, 31)
    /\ Len(result.start) = 10 /\ Len(result.end) = 10

\* the same statement for the years 100..9998
C4_StartAndEndCommonEra ==
  (AcademicYearCalled /\ ~Parsed.nan /\ Parsed.n >= 100 /\ Parsed.n <= 9998) =>
    /\ result.kind = "value"
    /\ result.start = DateString(Parsed.n, 9, 1)
    /\ result.end = DateString(Parsed.n + 1, 8, 31)
    /\ Len(result.start) = 10 /\ Len(result.end) = 10

NumDigits(n) == Len(NatToString(IF n < 0 THEN -n ELSE n))

Last2(n) ==
  LET str == NumberToString(n) IN <<str[Len(str) - 1], str[Len(str)]>>

LabelsMatch(r, y) ==
  /\ r.kind = "value"
  /\ r.rangeFull = NumberToString(y) \o <<"-">> \o NumberToString(y + 1)
  /\ r.rangeShort = Last2(y) \o <<"-">> \o Last2(y + 1)
  /\ r.rangeCompact = Last2(y) \o Last2(y + 1)
  /\ r.rangeMixed = NumberToString(y) \o <<"-">> \o Last2(y + 1)
  /\ r.rangeCompact = SelectSeq(r.rangeShort, LAMBDA c : c # "-")

\* C5: for every year of four or more digits the labels are built from the
\* decimal strings of year and year+1 and their last two characters, and
\* rangeCompact is rangeShort without its separator
C5_RangeLabels ==
  (AcademicYearCalled /\ ~Parsed.nan /\ NumDigits(Parsed.n) >= 4) =>
    LabelsMatch(result, Parsed.n)

\* the same statement for the calls that return
C5_RangeLabelsWhenReturned ==
  (AcademicYearCalled /\ ~Parsed.nan /\ NumDigits(Parsed.n) >= 4
     /\ result.kind # "throw") =>
    LabelsMatch(result, Parsed.n)

IsComplete(r) ==
  /\ r.kind = "value"
  /\ \A f \in {"start", "end", "rangeFull", "rangeShort", "rangeCompact",
               "rangeMixed", "label"} : r[f] # <<>>

\* C6: the call returns null, having written a diagnostic, exactly when the
\* input does not parse to a number; on every input that parses it returns a
\* complete object and raises nothing
C6_NullOnlyWhenUnparseable ==
  AcademicYearCalled =>
    /\ (result.kind = "null") <=> Parsed.nan
    /\ (result.kind = "null") => console # <<>>
    /\ (~Parsed.nan) => IsComplete(result)

\* the same statement for the years Date can represent
C6_NullOnlyWhenUnparseableInRange ==
  (AcademicYearCalled /\ (Parsed.nan \/ (Parsed.n >= -271821 /\ Parsed.n <= 275759))) =>
    /\ (result.kind = "null") <=> Parsed.nan
    /\ (result.kind = "null") => console # <<>>
    /\ (~Parsed.nan) => IsComplete(result)

C8_CurrentAcademicYear ==
  current.called =>
    current.year = IF current.at.m \in 1..8 THEN current.at.y - 1 ELSE current.at.y

C8_Witness ==
  /\ current.called
  /\ ticks > 0
  /\ current.at.m = 9 /\ current.at.d = 1
  /\ current.year = current.at.y

C8_WitnessAugust ==
  /\ current.called
  /\ current.at.m = 8 /\ current.at.d = 31
  /\ current.year = current.at.y - 1

\* the time value of a date string: four digits of year, or a sign and six
IsoDay(str) ==
  LET signed == Head(str) \in {"+", "-"}
      yl == IF signed THEN 7 ELSE 4
      mag == DigitsValue(SubSeq(str, IF signed THEN 2 ELSE 1, yl), 0)
      y == IF signed /\ Head(str) = "-" THEN -mag ELSE mag
      m == DigitsValue(SubSeq(str, yl + 2, yl + 3), 0)
      d == DigitsValue(SubSeq(str, yl + 5, yl + 6), 0)
  IN MakeDay(y, m - 1, d)

\* date lies in the academic year r describes
InAcademicYear(date, r) ==
  /\ r.kind = "value"
  /\ IsoDay(r.start) <= MakeDay(date.y, date.m - 1, date.d)
  /\ MakeDay(date.y, date.m - 1, date.d) <= IsoDay(r.end)

NearbyYears(y) == (y - 2)..(y + 2)
TwoDigitYears == 0..99

\* C10: with y the year currentAcademicYear returned on date d, academicYear(y)
\* is an object whose start..end holds d, and d lies in the start..end of no
\* other year's object
C10_CurrentDateInItsYear ==
  (current.called /\ AcademicYearCalled) =>
    /\ result.kind = "value"
    /\ InAcademicYear(current.at, result)
    /\ \A other \in (NearbyYears(current.year) \cup TwoDigitYears) \ {current.year} :
         ~InAcademicYear(current.at, academicYear(Number(other)).ret)

\* the same statement, the other years being the nearby ones
C10_CurrentDateInItsYearNearby ==
  (current.called /\ AcademicYearCalled) =>
    /\ result.kind = "value"
    /\ InAcademicYear(current.at, result)
    /\ \A other \in NearbyYears(current.year) \ {current.year} :
         ~InAcademicYear(current.at, academicYear(Number(other)).ret)

====
